---- MODULE Spec2Model ----
(***************************************************************************)
(* Model of weekly_ad_generator.py: the pipeline orchestrator job(), the   *)
(* two generation clients and the DriveManager with its live / dry-run     *)
(* modes.                                                                  *)
(*                                                                         *)
(* Two specifications share the variables:                                 *)
(*   Spec    one run of job() (lines 152-196), with the backends' answers  *)
(*           chosen nondeterministically at every call;                    *)
(*   SpecDM  one DriveManager instance driven through its public methods   *)
(*           with arbitrary arguments, in any order.                       *)
(*                                                                         *)
(* Representation.  Python None is the string None; an Optional object     *)
(* that is tested for truthiness (part.inline_data) is a sequence of       *)
(* length 0 or 1; bytes are sequences of numbers; a formatted string is    *)
(* the tuple of its pieces.  Local file writes (open/write, lines 108-109) *)
(* are taken to succeed; remote calls may raise.                           *)
(***************************************************************************)
EXTENDS Integers, Sequences, FiniteSets, TLC

\* ------------------------------------------------------------------ bounds
MaxProjects == 2
MaxParts == 2
MaxCalls == 2

\* --------------------------------------------------------------- constants
None == "<None>"
NoErr == "<no exception>"
DRY_RUN == "dry-run-folder-id"
DriveService == "drive-v3"

ProductNames == {"CollagenJelly", "GreenTea"}
Dates == {"2026-11-01", "2026-11-02"}
Timestamps == {"20261101_090000", "20261102_090000"}
ParentIds == {None, "folderA", DRY_RUN}

EmptyBytes == << >>
PNG1 == <<1>>
PNG2 == <<2>>
Bytes == {EmptyBytes, PNG1, PNG2}

VARIABLES
    projects,        \* job: the configured list of AdProject (product names)
    DRIVE_FOLDER_ID, \* module global read from the environment
    pc,              \* position in job(), or "api" under SpecDM
    i,               \* job: index of the project the loop is at
    today_str,       \* job local
    folder_id,       \* job local
    content,         \* job local
    image_data,      \* job local
    image_filename,  \* job local
    job_logs,        \* job local
    constructed,     \* whether DriveManager.__init__ has run
    service,         \* DriveManager.service
    authAttempts,    \* history: number of google.auth.default() calls
    cred,            \* history: how the try block of __init__ ended
    remote,          \* Drive: the objects created by files().create, in order
    files,           \* working directory: filename -> bytes
    ret,             \* value returned by the last manager call
    err,             \* exception raised by the last call, or NoErr
    trace,           \* history: the steps job() has executed
    last,            \* history: the last manager call and its arguments
    prev,            \* history: the manager call before the last one
    answer,          \* history: what the image backend's last answer carried
    generated,       \* history: the bytes generate_image returned, per project
    ncalls           \* history: number of manager calls made

vars == <<projects, DRIVE_FOLDER_ID, pc, i, today_str, folder_id, content,
          image_data, image_filename, job_logs, constructed, service,
          authAttempts, cred, remote, files, ret, err, trace, last, prev,
          answer, generated, ncalls>>

jobLocals == <<i, today_str, folder_id, content, image_data, image_filename, job_logs>>
managerState == <<service, authAttempts, cred, remote, files>>
config == <<projects, DRIVE_FOLDER_ID>>

\* ------------------------------------------------------ results of a call
Return(v) == [raised |-> NoErr, value |-> v]
Raise(e) == [raised |-> e, value |-> << >>]

\* ------------------------------------------------------------ GeminiClient
\* What the text backend can answer: the call raises, the text is not JSON,
\* or it is a JSON document with or without the "prompt" field.
DocOk == [headline |-> "h", prompt |-> "banner prompt"]
DocEmptyPrompt == [headline |-> "h", prompt |-> ""]
DocNoPrompt == [headline |-> "h"]
Docs == {DocOk, DocEmptyPrompt, DocNoPrompt}

GeminiResponses ==
    {[fault |-> TRUE, wellformed |-> FALSE, doc |-> DocNoPrompt]}
    \cup {[fault |-> FALSE, wellformed |-> FALSE, doc |-> DocNoPrompt]}
    \cup {[fault |-> FALSE, wellformed |-> TRUE, doc |-> d] : d \in Docs}

json_loads(text) ==
    IF text.wellformed THEN Return(text.doc) ELSE Raise("JSONDecodeError")

generate_ad_copy(response) ==
    IF response.fault THEN Raise("APIError") ELSE json_loads(response)

\* -------------------------------------------------------- NanobabanaClient
TextPart == [inline_data |-> << >>]
BlobPart(b) == [inline_data |-> <<[data |-> b]>>]
Parts == {TextPart, BlobPart(EmptyBytes), BlobPart(PNG1)}

RECURSIVE SeqsUpTo(_, _)
SeqsUpTo(S, n) ==
    IF n = 0 THEN {<< >>}
    ELSE LET shorter == SeqsUpTo(S, n - 1)
         IN shorter \cup {Append(s, x) : s \in {t \in shorter : Len(t) = n - 1}, x \in S}

ImageResponses ==
    {[fault |-> TRUE, candidates |-> << >>]}
    \cup {[fault |-> FALSE, candidates |-> << >>]}
    \cup {[fault |-> FALSE, candidates |-> <<[parts |-> ps]>>] : ps \in SeqsUpTo(Parts, MaxParts)}

RECURSIVE first_inline_data(_, _)
first_inline_data(parts, n) ==
    IF n > Len(parts) THEN Raise("Exception")
    ELSE IF Len(parts[n].inline_data) > 0 THEN Return(parts[n].inline_data[1].data)
    ELSE first_inline_data(parts, n + 1)

generate_image(response) ==
    IF response.fault THEN Raise("APIError")
    ELSE IF Len(response.candidates) = 0 THEN Raise("IndexError")
    ELSE first_inline_data(response.candidates[1].parts, 1)

\* What an answer of the image backend carries, read off the answer itself:
\* the call failed, or some part holds inline data, or none does.
AnswerKind(response) ==
    IF response.fault THEN "fault"
    ELSE IF \E c \in 1..Len(response.candidates) :
               \E n \in 1..Len(response.candidates[c].parts) :
                  Len(response.candidates[c].parts[n].inline_data) > 0
         THEN "image data"
         ELSE "no image data"

\* ------------------------------------------------------------ DriveManager
AuthOutcomes == {"ok", "raised"}
NetOutcomes == {"ok", "HttpError"}

DriveManager_init(outcome) ==
    /\ authAttempts' = authAttempts + 1
    /\ cred' = outcome
    /\ service' = IF outcome = "ok" THEN DriveService ELSE None
    /\ constructed' = TRUE
    /\ err' = NoErr
    /\ UNCHANGED <<remote, files>>

\* Variant that creates a weekly subfolder under the parent in live mode.
get_weekly_folder_id_subfolder(parent_id) ==
    /\ ret' = IF service = None THEN DRY_RUN ELSE "weekly-subfolder"
    /\ remote' = IF service = None THEN remote
                 ELSE Append(remote, [name |-> <<"weekly">>, parents |-> <<parent_id>>,
                                      mimeType |-> "application/vnd.google-apps.folder",
                                      body |-> << >>])
    /\ err' = NoErr
    /\ UNCHANGED <<service, authAttempts, cred, files>>

\* Variant that returns the configured parent in both modes.
get_weekly_folder_id_passthrough(parent_id) ==
    /\ ret' = parent_id
    /\ err' = NoErr
    /\ UNCHANGED managerState

get_weekly_folder_id(parent_id) ==
    /\ ret' = IF service = None THEN DRY_RUN ELSE parent_id
    /\ err' = NoErr
    /\ UNCHANGED managerState

ImageObject(image_data_, filename, folder) ==
    [name |-> filename, parents |-> <<folder>>, mimeType |-> "image/png", body |-> image_data_]

\* Variant that branches on the location argument instead of self.service.
save_image_bylocation(image_data_, filename, folder, net) ==
    /\ ret' = None
    /\ IF folder = DRY_RUN
       THEN /\ files' = (filename :> image_data_) @@ files
            /\ remote' = remote
            /\ err' = NoErr
       ELSE /\ files' = files
            /\ remote' = IF net = "ok"
                         THEN Append(remote, ImageObject(image_data_, filename, folder))
                         ELSE remote
            /\ err' = IF net = "ok" THEN NoErr ELSE "HttpError"
    /\ UNCHANGED <<service, authAttempts, cred>>

\* Variant that looks for credentials again when the manager has no service.
save_image_retry(image_data_, filename, folder, net) ==
    /\ ret' = None
    /\ authAttempts' = IF service = None THEN authAttempts + 1 ELSE authAttempts
    /\ service' = DriveService
    /\ files' = files
    /\ remote' = IF net = "ok"
                 THEN Append(remote, ImageObject(image_data_, filename, folder))
                 ELSE remote
    /\ err' = IF net = "ok" THEN NoErr ELSE "HttpError"
    /\ UNCHANGED cred

\* Variant whose dry-run branch only prints and writes no local file.
save_image_nowrite(image_data_, filename, folder, net) ==
    /\ ret' = None
    /\ IF service = None
       THEN /\ files' = files
            /\ remote' = remote
            /\ err' = NoErr
       ELSE /\ files' = files
            /\ remote' = IF net = "ok"
                         THEN Append(remote, ImageObject(image_data_, filename, folder))
                         ELSE remote
            /\ err' = IF net = "ok" THEN NoErr ELSE "HttpError"
    /\ UNCHANGED <<service, authAttempts, cred>>

\* Variant that updates an existing object of the same name and parent in
\* place instead of creating a new one (upsert).
save_image_upsert(image_data_, filename, folder, net) ==
    /\ ret' = None
    /\ IF service = None
       THEN /\ files' = IF folder = DRY_RUN THEN (filename :> image_data_) @@ files ELSE files
            /\ remote' = remote
            /\ err' = NoErr
       ELSE /\ files' = files
            /\ remote' =
                  IF net # "ok" THEN remote
                  ELSE IF \E n \in 1..Len(remote) :
                             remote[n].name = filename /\ remote[n].parents = <<folder>>
                  THEN [n \in 1..Len(remote) |->
                           IF remote[n].name = filename /\ remote[n].parents = <<folder>>
                           THEN ImageObject(image_data_, filename, folder)
                           ELSE remote[n]]
                  ELSE Append(remote, ImageObject(image_data_, filename, folder))
            /\ err' = IF net = "ok" THEN NoErr ELSE "HttpError"
    /\ UNCHANGED <<service, authAttempts, cred>>

\* Variant whose dry-run branch opens the file for exclusive creation: a
\* second write of the same name raises and leaves the first contents.
save_image_exclusive(image_data_, filename, folder, net) ==
    /\ ret' = None
    /\ IF service = None
       THEN /\ files' = IF folder = DRY_RUN /\ filename \notin DOMAIN files
                        THEN (filename :> image_data_) @@ files
                        ELSE files
            /\ remote' = remote
            /\ err' = IF folder = DRY_RUN /\ filename \in DOMAIN files
                      THEN "FileExistsError" ELSE NoErr
       ELSE /\ files' = files
            /\ remote' = IF net = "ok"
                         THEN Append(remote, ImageObject(image_data_, filename, folder))
                         ELSE remote
            /\ err' = IF net = "ok" THEN NoErr ELSE "HttpError"
    /\ UNCHANGED <<service, authAttempts, cred>>

save_image(image_data_, filename, folder, net) ==
    /\ ret' = None
    /\ IF service = None
       THEN /\ files' = IF folder = DRY_RUN THEN (filename :> image_data_) @@ files ELSE files
            /\ remote' = remote
            /\ err' = NoErr
       ELSE /\ files' = files
            /\ remote' = IF net = "ok"
                         THEN Append(remote, ImageObject(image_data_, filename, folder))
                         ELSE remote
            /\ err' = IF net = "ok" THEN NoErr ELSE "HttpError"
    /\ UNCHANGED <<service, authAttempts, cred>>

log_filename(ts) == <<"log_", ts, ".json">>
json_dumps(log_data) == <<"utf-8 json, indent 2", log_data>>

LogObject(log_data, folder, ts) ==
    [name |-> log_filename(ts), parents |-> <<folder>>, mimeType |-> "application/json",
     body |-> json_dumps(log_data)]

\* Variant that branches on the location argument instead of self.service.
save_log_bylocation(log_data, folder, ts, net) ==
    /\ ret' = None
    /\ IF folder = DRY_RUN
       THEN /\ remote' = remote
            /\ err' = NoErr
       ELSE /\ remote' = IF net = "ok" THEN Append(remote, LogObject(log_data, folder, ts))
                         ELSE remote
            /\ err' = IF net = "ok" THEN NoErr ELSE "HttpError"
    /\ UNCHANGED <<service, authAttempts, cred, files>>

save_log(log_data, folder, ts, net) ==
    /\ ret' = None
    /\ IF service = None
       THEN /\ remote' = remote
            /\ err' = NoErr
       ELSE /\ remote' = IF net = "ok" THEN Append(remote, LogObject(log_data, folder, ts))
                         ELSE remote
            /\ err' = IF net = "ok" THEN NoErr ELSE "HttpError"
    /\ UNCHANGED <<service, authAttempts, cred, files>>

\* --------------------------------------------------------------------- job
Ev(op, k, arg) == [op |-> op, k |-> k, arg |-> arg]

ImageFilename(product_name, date) == <<product_name, "_", date, ".png">>

\* Variant that rebuilds the filename for the log without the run date.
LogEntry_nodate(date, product_name, content_, filename) ==
    [date |-> date, project |-> product_name, content |-> content_,
     filename |-> <<product_name, ".png">>]

LogEntry(date, product_name, content_, filename) ==
    [date |-> date, project |-> product_name, content |-> content_, filename |-> filename]

\* Variant of the loop head that leaves the loop one project early.
LoopHead_offByOne(idx) == IF idx < Len(projects) THEN "copy" ELSE "flush"

\* for project in projects: the loop head
LoopHead(idx) == IF idx <= Len(projects) THEN "copy" ELSE "flush"

\* Variant with a per-project error boundary: the exception is swallowed.
AfterStep_swallow(e, nextpc) == nextpc

\* no try/except in job(): an exception leaves job()
AfterStep(e, nextpc) == IF e = NoErr THEN nextpc ELSE "failed"

\* The record of a manager call: the method and its arguments.
Call(op, folder, filename, data) ==
    [op |-> op, folder |-> folder, filename |-> filename, data |-> data]
NoCall == Call(None, None, << >>, << >>)

Init ==
    /\ projects \in SeqsUpTo(ProductNames, MaxProjects)
    /\ DRIVE_FOLDER_ID \in ParentIds
    /\ pc = "start"
    /\ i = 0
    /\ today_str = None
    /\ folder_id = None
    /\ content = << >>
    /\ image_data = EmptyBytes
    /\ image_filename = << >>
    /\ job_logs = << >>
    /\ constructed = FALSE
    /\ service = None
    /\ authAttempts = 0
    /\ cred = None
    /\ remote = << >>
    /\ files = << >>
    /\ ret = None
    /\ err = NoErr
    /\ trace = << >>
    /\ last = NoCall
    /\ prev = NoCall
    /\ answer = None
    /\ generated = << >>
    /\ ncalls = 0

\* lines 165-167
JobConstruct ==
    /\ pc = "start"
    /\ \E outcome \in AuthOutcomes : DriveManager_init(outcome)
    /\ pc' = "resolve"
    /\ UNCHANGED <<config, jobLocals, ret, trace, last, answer, generated, prev, ncalls>>

\* lines 169-172
JobResolve ==
    /\ pc = "resolve"
    /\ \E d \in Dates : today_str' = d
    /\ get_weekly_folder_id(DRIVE_FOLDER_ID)
    /\ folder_id' = ret'
    /\ job_logs' = << >>
    /\ i' = 1
    /\ pc' = LoopHead(1)
    /\ trace' = Append(trace, Ev("RESOLVE_LOCATION", 0, << >>))
    /\ UNCHANGED <<config, content, image_data, image_filename, constructed, last, answer, generated, prev, ncalls>>

\* line 178
JobCopy ==
    /\ pc = "copy"
    /\ \E response \in GeminiResponses :
          LET r == generate_ad_copy(response)
          IN /\ err' = r.raised
             /\ content' = IF r.raised = NoErr THEN r.value ELSE content
             /\ pc' = AfterStep(r.raised, "image")
    /\ trace' = Append(trace, Ev("COPY", i, << >>))
    /\ UNCHANGED <<config, i, today_str, folder_id, image_data, image_filename, job_logs,
                   constructed, managerState, ret, last, answer, generated, prev, ncalls>>

\* lines 181-182
JobImage ==
    /\ pc = "image"
    /\ IF "prompt" \notin DOMAIN content
       THEN /\ err' = "KeyError"
            /\ pc' = "failed"
            /\ UNCHANGED <<image_data, image_filename, trace, answer, generated>>
       ELSE /\ \E response \in ImageResponses :
                  LET r == generate_image(response)
                  IN /\ answer' = AnswerKind(response)
                     /\ generated' = IF r.raised = NoErr THEN Append(generated, r.value)
                                     ELSE generated
                     /\ err' = r.raised
                     /\ image_data' = IF r.raised = NoErr THEN r.value ELSE image_data
                     /\ image_filename' = IF r.raised = NoErr
                                          THEN ImageFilename(projects[i], today_str)
                                          ELSE image_filename
                     /\ pc' = AfterStep(r.raised, "store")
            /\ trace' = Append(trace, Ev("IMAGE", i, content.prompt))
    /\ UNCHANGED <<config, i, today_str, folder_id, content, job_logs,
                   constructed, managerState, ret, last, prev, ncalls>>

\* line 185
JobStore ==
    /\ pc = "store"
    /\ \E net \in NetOutcomes : save_image(image_data, image_filename, folder_id, net)
    /\ pc' = AfterStep(err', "log")
    /\ trace' = Append(trace, Ev("STORE", i, image_filename))
    /\ UNCHANGED <<config, jobLocals, constructed, last, answer, generated, prev, ncalls>>

\* Variant that flushes the log after every project (a partial-run flush).
JobLog_flushEach ==
    /\ pc = "log"
    /\ job_logs' = Append(job_logs, LogEntry(today_str, projects[i], content, image_filename))
    /\ \E ts \in Timestamps : save_log(job_logs', folder_id, ts, "ok")
    /\ i' = i + 1
    /\ pc' = LoopHead(i + 1)
    /\ trace' = Append(trace, Ev("LOG", i, << >>))
    /\ UNCHANGED <<config, today_str, folder_id, content, image_data, image_filename,
                   constructed, last, answer, generated, prev, ncalls>>

\* lines 187-192, and back to the loop head
JobLog ==
    /\ pc = "log"
    /\ job_logs' = Append(job_logs, LogEntry(today_str, projects[i], content, image_filename))
    /\ i' = i + 1
    /\ pc' = LoopHead(i + 1)
    /\ trace' = Append(trace, Ev("LOG", i, << >>))
    /\ UNCHANGED <<config, today_str, folder_id, content, image_data, image_filename,
                   constructed, managerState, ret, err, last, answer, generated, prev, ncalls>>

\* Variant in which the orchestrator looks at the mode: without a service
\* it ends the run without calling save_log.
JobFlush_liveOnly ==
    /\ pc = "flush"
    /\ IF service = None
       THEN /\ pc' = "done"
            /\ UNCHANGED <<managerState, ret, err, trace>>
       ELSE /\ \E ts \in Timestamps, net \in NetOutcomes : save_log(job_logs, folder_id, ts, net)
            /\ pc' = AfterStep(err', "done")
            /\ trace' = Append(trace, Ev("FLUSH_LOG", 0, job_logs))
    /\ UNCHANGED <<config, jobLocals, constructed, last, answer, generated, prev, ncalls>>

\* lines 195-196
JobFlush ==
    /\ pc = "flush"
    /\ \E ts \in Timestamps, net \in NetOutcomes : save_log(job_logs, folder_id, ts, net)
    /\ pc' = AfterStep(err', "done")
    /\ trace' = Append(trace, Ev("FLUSH_LOG", 0, job_logs))
    /\ UNCHANGED <<config, jobLocals, constructed, last, answer, generated, prev, ncalls>>

Next ==
    \/ JobConstruct
    \/ JobResolve
    \/ JobCopy
    \/ JobImage
    \/ JobStore
    \/ JobLog
    \/ JobFlush

Spec == Init /\ [][Next]_vars

\* ------------------------------------------------- the manager on its own
\* One DriveManager, constructed once and then called through its three
\* methods with any arguments, in any order.
DMFilenames == {ImageFilename(p, "2026-11-01") : p \in ProductNames}
DMImages == {PNG1, PNG2}
DMLogs == {<< >>, <<LogEntry("2026-11-01", "GreenTea", DocOk, ImageFilename("GreenTea", "2026-11-01"))>>}

InitDM ==
    /\ projects = << >>
    /\ DRIVE_FOLDER_ID = None
    /\ pc = "api"
    /\ i = 0
    /\ today_str = None
    /\ folder_id = None
    /\ content = << >>
    /\ image_data = EmptyBytes
    /\ image_filename = << >>
    /\ job_logs = << >>
    /\ constructed = FALSE
    /\ service = None
    /\ authAttempts = 0
    /\ cred = None
    /\ remote = << >>
    /\ files = << >>
    /\ ret = None
    /\ err = NoErr
    /\ trace = << >>
    /\ last = NoCall
    /\ prev = NoCall
    /\ answer = None
    /\ generated = << >>
    /\ ncalls = 0

\* lines 78-90
DMConstruct ==
    /\ pc = "api"
    /\ ~constructed
    /\ \E outcome \in AuthOutcomes : DriveManager_init(outcome)
    /\ last' = Call("__init__", None, << >>, << >>)
    /\ prev' = last
    /\ UNCHANGED <<config, pc, jobLocals, ret, trace, answer, generated, ncalls>>

\* lines 92-100
DMGetWeeklyFolderId ==
    /\ pc = "api"
    /\ constructed
    /\ ncalls < MaxCalls
    /\ \E parent_id \in ParentIds :
          /\ get_weekly_folder_id(parent_id)
          /\ last' = Call("get_weekly_folder_id", parent_id, << >>, << >>)
    /\ prev' = last
    /\ ncalls' = ncalls + 1
    /\ UNCHANGED <<config, pc, jobLocals, constructed, trace, answer, generated>>

\* lines 102-124
DMSaveImage ==
    /\ pc = "api"
    /\ constructed
    /\ ncalls < MaxCalls
    /\ \E data \in DMImages, filename \in DMFilenames, folder \in ParentIds, net \in NetOutcomes :
          /\ save_image(data, filename, folder, net)
          /\ last' = Call("save_image", folder, filename, data)
    /\ prev' = last
    /\ ncalls' = ncalls + 1
    /\ UNCHANGED <<config, pc, jobLocals, constructed, trace, answer, generated>>

\* lines 126-150
DMSaveLog ==
    /\ pc = "api"
    /\ constructed
    /\ ncalls < MaxCalls
    /\ \E log_data \in DMLogs, folder \in ParentIds, ts \in Timestamps, net \in NetOutcomes :
          /\ save_log(log_data, folder, ts, net)
          /\ last' = Call("save_log", folder, log_filename(ts), log_data)
    /\ prev' = last
    /\ ncalls' = ncalls + 1
    /\ UNCHANGED <<config, pc, jobLocals, constructed, trace, answer, generated>>

NextDM ==
    \/ DMConstruct
    \/ DMGetWeeklyFolderId
    \/ DMSaveImage
    \/ DMSaveLog

SpecDM == InitDM /\ [][NextDM]_vars

\* ================================================================= claims
StepNames == <<"COPY", "IMAGE", "STORE", "LOG">>
LastStep == IF Len(trace) = 0 THEN None ELSE trace[Len(trace)].op
LogObjects == {n \in 1..Len(remote) : remote[n].mimeType = "application/json"}
ImageObjects == {n \in 1..Len(remote) : remote[n].mimeType = "image/png"}

\* The step job() executes in position j of a run over n projects.
ExpectedStep(j, n) ==
    IF j = 1 THEN <<"RESOLVE_LOCATION", 0>>
    ELSE IF j = 4 * n + 2 THEN <<"FLUSH_LOG", 0>>
    ELSE <<StepNames[((j - 2) % 4) + 1], ((j - 2) \div 4) + 1>>

\* C1: in every run of job() the steps executed so far are a prefix of
\* RESOLVE_LOCATION, then COPY, IMAGE, STORE, LOG of project 1, of project
\* 2, ... in configured order, then FLUSH_LOG; each occurs once, a STORE of
\* project k stores the file of projects[k], and a completed run has
\* executed the whole sequence.
C1_Lifecycle ==
    /\ Len(trace) <= 4 * Len(projects) + 2
    /\ \A j \in 1..Len(trace) :
          /\ <<trace[j].op, trace[j].k>> = ExpectedStep(j, Len(projects))
          /\ trace[j].op = "STORE" => trace[j].arg[1] = projects[trace[j].k]
    /\ pc = "done" => Len(trace) = 4 * Len(projects) + 2

C1_Witness ==
    /\ pc = "done"
    /\ Len(projects) = 2
    /\ projects[1] # projects[2]
    /\ Len(trace) = 10

\* C2: once a step of project k has raised, job() executes nothing more:
\* no step of a later project, no save_log, and storage is never touched
\* again, so the run leaves no log object.
C2_AbortedState ==
    (err # NoErr /\ LastStep \in {"COPY", "IMAGE", "STORE"}) =>
        /\ pc = "failed"
        /\ \A j \in 1..Len(trace) : trace[j].k <= i /\ trace[j].op # "FLUSH_LOG"
        /\ LogObjects = {}

\* C2: the aborted state above holds whenever a step has raised, and no
\* step follows an exception.
C2_Abort ==
    /\ []C2_AbortedState
    /\ [][err # NoErr => (trace' = trace /\ remote' = remote /\ files' = files /\ pc' = pc)]_vars

C2_Witness ==
    /\ pc = "failed"
    /\ Len(projects) = 2
    /\ i = 1
    /\ LastStep = "STORE"
    /\ err = "HttpError"

\* C3: when the image backend's answer carries no image data, the run
\* fails with ImageGenerationError and save_image is not called for that
\* project.
C3_TypedImageError ==
    (LastStep = "IMAGE" /\ answer = "no image data") =>
        /\ pc = "failed"
        /\ err = "ImageGenerationError"
        /\ \A j \in 1..Len(trace) : ~(trace[j].op = "STORE" /\ trace[j].k = i)

\* C4: whenever generate_ad_copy has returned, the content it returned has
\* a prompt field and the prompt is not empty; no missing or empty prompt
\* gets past the copy step.
C4_PromptValidated ==
    /\ pc = "image" => ("prompt" \in DOMAIN content /\ content.prompt # "")
    /\ \A j \in 1..Len(trace) : trace[j].op = "IMAGE" => trace[j].arg # ""

\* C5: whenever generate_image has returned, the bytes it returned are not
\* empty, so save_image is never handed an empty artifact.
C5_NonEmptyImage ==
    pc = "store" => image_data # EmptyBytes

\* A manager method was just called (SpecDM): the step from the unprimed to
\* the primed state is a call of `op`.
Called(op) == ncalls' = ncalls + 1 /\ last'.op = op
IsRemoteId(folder) == folder \notin {None, DRY_RUN}

\* C6: get_weekly_folder_id returns the sentinel when the credential
\* discovery of __init__ failed and its argument unchanged when it
\* succeeded, for every argument, and changes nothing of the manager or of
\* storage (so a second call with the same state returns the same).
C6_ResolveLocation ==
    [][Called("get_weekly_folder_id") =>
         /\ ret' = IF cred = "ok" THEN last'.folder ELSE DRY_RUN
         /\ err' = NoErr
         /\ UNCHANGED <<service, authAttempts, cred, remote, files>>]_vars

C6_Witness ==
    /\ last.op = "get_weekly_folder_id"
    /\ cred = "raised"
    /\ last.folder = "folderA"
    /\ ret = DRY_RUN
    /\ ncalls = 2

\* C7 as claimed: the location argument alone decides what a returning
\* save_image does: a remote folder id means one image/png object created
\* under it, the sentinel means the local file `filename` written, and
\* nothing else happens.
C7_ByLocation ==
    [][(Called("save_image") /\ err' = NoErr) =>
         /\ IsRemoteId(last'.folder) =>
               /\ remote' = Append(remote, ImageObject(last'.data, last'.filename, last'.folder))
               /\ files' = files
         /\ last'.folder = DRY_RUN =>
               /\ files' = (last'.filename :> last'.data) @@ files
               /\ remote' = remote]_vars

\* C7 as amended: the manager's mode decides first.  With a service a
\* returning save_image creates one image/png object under the given
\* parent, whatever the location (the sentinel included); without a service
\* it writes the local file `filename` when the location is the sentinel and
\* stores nothing when it is anything else.  A call that raises stores
\* nothing.
C7_ByService ==
    [][Called("save_image") =>
         /\ (service # None /\ err' = NoErr) =>
               /\ remote' = Append(remote, ImageObject(last'.data, last'.filename, last'.folder))
               /\ files' = files
         /\ (service = None /\ last'.folder = DRY_RUN) =>
               /\ err' = NoErr
               /\ files' = (last'.filename :> last'.data) @@ files
               /\ remote' = remote
         /\ (service = None /\ last'.folder # DRY_RUN) =>
               /\ err' = NoErr
               /\ UNCHANGED <<remote, files>>
         /\ err' # NoErr => UNCHANGED <<remote, files>>]_vars

C7_Witness ==
    /\ last.op = "save_image"
    /\ service = None
    /\ last.folder = "folderA"
    /\ err = NoErr
    /\ DOMAIN files = {}
    /\ Len(remote) = 0

\* C8 as claimed: a returning save_log with the sentinel as location changes
\* nothing of storage, and with a remote folder id it creates exactly one
\* log object under that parent.
C8_ByLocation ==
    [][(Called("save_log") /\ err' = NoErr) =>
         /\ last'.folder = DRY_RUN => UNCHANGED <<remote, files>>
         /\ IsRemoteId(last'.folder) =>
               /\ Len(remote') = Len(remote) + 1
               /\ SubSeq(remote', 1, Len(remote)) = remote
               /\ remote'[Len(remote')].mimeType = "application/json"
               /\ remote'[Len(remote')].parents = <<last'.folder>>
               /\ files' = files]_vars

\* C8 as amended: save_log is a no-op whenever the manager has no service,
\* whatever the location; with a service a returning call creates exactly
\* one log object (application/json, named log_<timestamp>.json, holding
\* the serialised sequence) under the given parent, whatever the location
\* (the sentinel included).  It never writes a local file.
C8_ByService ==
    [][Called("save_log") =>
         /\ service = None => (err' = NoErr /\ UNCHANGED <<remote, files>>)
         /\ (service # None /\ err' = NoErr) =>
               /\ Len(remote') = Len(remote) + 1
               /\ SubSeq(remote', 1, Len(remote)) = remote
               /\ remote'[Len(remote')] =
                     [name |-> last'.filename, parents |-> <<last'.folder>>,
                      mimeType |-> "application/json", body |-> json_dumps(last'.data)]
         /\ err' # NoErr => UNCHANGED <<remote, files>>
         /\ files' = files]_vars

C8_Witness ==
    /\ last.op = "save_log"
    /\ service # None
    /\ last.folder = DRY_RUN
    /\ err = NoErr
    /\ Len(remote) = 1
    /\ remote[1].parents = <<DRY_RUN>>

\* C9: google.auth.default() is called once, in __init__; __init__ raises
\* nothing whatever the outcome; and from then on the manager's service is
\* the one the construction left, through every later method call.
C9_ModeFixed ==
    /\ ~constructed => (authAttempts = 0 /\ service = None)
    /\ constructed =>
          /\ authAttempts = 1
          /\ service = (IF cred = "ok" THEN DriveService ELSE None)
          /\ last.op = "__init__" => err = NoErr

C9_Witness ==
    /\ constructed
    /\ cred = "raised"
    /\ service = None
    /\ ncalls = 2
    /\ last.op = "save_image"
    /\ last.folder = DRY_RUN

\* C10: job_logs holds one entry per project whose image has been stored,
\* in configured order, each with the filename that was passed to
\* save_image for that project, {product_name}_{run_date}.png; save_log is
\* handed the whole sequence, one entry per configured project; and no log
\* object exists before the loop has finished.
C10_LogSequence ==
    /\ pc \in {"copy", "image", "store"} => Len(job_logs) = i - 1
    /\ pc = "log" => (Len(job_logs) = i - 1 /\ LastStep = "STORE" /\ err = NoErr)
    /\ Len(job_logs) = Cardinality({j \in 1..Len(trace) : trace[j].op = "LOG"})
    /\ \A k \in 1..Len(job_logs) :
          /\ job_logs[k].project = projects[k]
          /\ job_logs[k].date = today_str
          /\ job_logs[k].filename = ImageFilename(projects[k], today_str)
          /\ \E s \in 1..Len(trace) :
                /\ trace[s].op = "STORE"
                /\ trace[s].k = k
                /\ trace[s].arg = job_logs[k].filename
                /\ \E l \in (s + 1)..Len(trace) : trace[l].op = "LOG" /\ trace[l].k = k
    /\ \A j \in 1..Len(trace) :
          trace[j].op = "FLUSH_LOG" =>
              (trace[j].arg = job_logs /\ Len(job_logs) = Len(projects))
    /\ \A n \in LogObjects :
          /\ pc = "done"
          /\ remote[n].body = json_dumps(job_logs)
    /\ Cardinality(LogObjects) <= 1

C10_Witness ==
    /\ pc = "done"
    /\ Len(projects) = 2
    /\ Len(job_logs) = 2
    /\ Cardinality(LogObjects) = 1
    /\ Cardinality(ImageObjects) = 2

\* The storage-manager calls among the steps of a trace, each with the
\* filename it was given (save_image) and nothing else.
RECURSIVE ManagerCalls(_)
ManagerCalls(t) ==
    IF Len(t) = 0 THEN << >>
    ELSE LET e == t[Len(t)]
             before == ManagerCalls(SubSeq(t, 1, Len(t) - 1))
         IN IF e.op = "RESOLVE_LOCATION" THEN Append(before, <<"get_weekly_folder_id", << >>>>)
            ELSE IF e.op = "STORE" THEN Append(before, <<"save_image", e.arg>>)
            ELSE IF e.op = "FLUSH_LOG" THEN Append(before, <<"save_log", << >>>>)
            ELSE before

\* The calls a run over the configured projects issues up to its m-th call,
\* written from the configuration and the run date alone.
ExpectedCalls(m) ==
    [c \in 1..m |->
        IF c = 1 THEN <<"get_weekly_folder_id", << >>>>
        ELSE IF c = Len(projects) + 2 THEN <<"save_log", << >>>>
        ELSE <<"save_image", ImageFilename(projects[c - 1], today_str)>>]

\* The number of manager calls issued when job() stands at pc in project i.
CallsIssuedAt ==
    IF pc \in {"start", "resolve"} THEN 0
    ELSE IF pc \in {"copy", "image", "store", "flush"} THEN i
    ELSE IF pc = "log" THEN i + 1
    ELSE Len(projects) + 2

\* C11: the storage-manager calls job() has issued are fixed by the project
\* list, the run date and how far the run got; they are the same whether
\* the manager has a service or not: get_weekly_folder_id once, save_image
\* once per project with {product_name}_{run_date}.png, save_log once.
C11_ModeAgnostic ==
    LET calls == ManagerCalls(trace)
    IN /\ Len(calls) <= Len(projects) + 2
       /\ calls = ExpectedCalls(Len(calls))
       /\ pc # "failed" => Len(calls) = CallsIssuedAt
       /\ pc = "done" => calls = ExpectedCalls(Len(projects) + 2)

C11_Witness ==
    /\ pc = "done"
    /\ service = None
    /\ Len(projects) = 2
    /\ Len(ManagerCalls(trace)) = 4
    /\ folder_id = DRY_RUN

\* C12: in a run whose DRIVE_FOLDER_ID is not set, no remote storage call
\* is made, with or without discoverable credentials: no object is created
\* on Drive and no upload is attempted.
C12_LocalOnlyWithoutParent ==
    DRIVE_FOLDER_ID = None => (Len(remote) = 0 /\ err # "HttpError")

DistinctNames == \A a, b \in 1..Len(projects) : projects[a] = projects[b] => a = b

\* C13: when credential discovery failed, no remote call is ever made, and
\* a completed run over projects with distinct names leaves exactly the
\* local files {product_name}_{run_date}.png, one per project, each holding
\* the bytes generate_image returned for that project.
C13_LocalRun ==
    cred = "raised" =>
        /\ Len(remote) = 0
        /\ err # "HttpError"
        /\ (pc = "done" /\ DistinctNames) =>
              /\ DOMAIN files = {ImageFilename(projects[k], today_str) : k \in 1..Len(projects)}
              /\ Cardinality(DOMAIN files) = Len(projects)
              /\ Len(generated) = Len(projects)
              /\ \A k \in 1..Len(projects) :
                    files[ImageFilename(projects[k], today_str)] = generated[k]

C13_Witness ==
    /\ pc = "done"
    /\ cred = "raised"
    /\ Len(projects) = 2
    /\ DistinctNames
    /\ Cardinality(DOMAIN files) = 2
    /\ generated = <<PNG1, EmptyBytes>>

\* The step is the second of two consecutive save_image calls that name the
\* same file and both pass the sentinel as location.
SecondWrite ==
    /\ Called("save_image")
    /\ last'.folder = DRY_RUN
    /\ last.op = "save_image"
    /\ last.folder = DRY_RUN
    /\ last.filename = last'.filename

LastWriteWins ==
    /\ err = NoErr
    /\ err' = NoErr
    /\ last'.filename \in DOMAIN files'
    /\ files'[last'.filename] = last'.data
    /\ DOMAIN files' = DOMAIN files

\* C14 as claimed: two save_image calls with the same filename and the
\* sentinel as location raise nothing, the local file then holds the bytes
\* of the second call, and there is one file of that name.
C14_LastWriteWins == [][SecondWrite => LastWriteWins]_vars

\* C14 as amended: the same, for a manager without a Drive service.  (With a
\* service the sentinel is used as an upload parent: no local file is
\* written and the upload may raise.)
C14_LastWriteWinsFallback == [][(SecondWrite /\ service = None) => LastWriteWins]_vars

C14_Witness ==
    /\ service = None
    /\ ncalls = 2
    /\ prev.op = "save_image" /\ prev.folder = DRY_RUN /\ prev.data = PNG1
    /\ last.op = "save_image" /\ last.folder = DRY_RUN /\ last.data = PNG2
    /\ prev.filename = last.filename
    /\ DOMAIN files = {last.filename}
    /\ files[last.filename] = PNG2
    /\ err = NoErr

\* The objects on Drive that carry a given name under a given parent.
Named(objects, name, folder) ==
    {n \in 1..Len(objects) : objects[n].name = name /\ objects[n].parents = <<folder>>}

\* C15: on a manager with a service every save_image or save_log call that
\* returns adds one new object and leaves every existing object as it was,
\* also when an object of the same name already exists under the same
\* parent: the number of objects of that name under that parent grows by one.
C15_CreateOnly ==
    [][((Called("save_image") \/ Called("save_log")) /\ service # None /\ err' = NoErr) =>
         /\ Len(remote') = Len(remote) + 1
         /\ SubSeq(remote', 1, Len(remote)) = remote
         /\ remote'[Len(remote')].name = last'.filename
         /\ Cardinality(Named(remote', last'.filename, last'.folder))
               = Cardinality(Named(remote, last'.filename, last'.folder)) + 1]_vars

C15_Witness ==
    /\ service # None
    /\ prev.op = "save_image" /\ last.op = "save_image"
    /\ prev.filename = last.filename
    /\ prev.folder = "folderA" /\ last.folder = "folderA"
    /\ Len(remote) = 2
    /\ remote[1].name = remote[2].name
    /\ remote[1].parents = remote[2].parents
    /\ remote[1].body = PNG1 /\ remote[2].body = PNG2

\* The last project before i that carries the same product name as project k.
LastSameName(k) ==
    CHOOSE m \in k..(i - 1) :
        /\ projects[m] = projects[k]
        /\ \A m2 \in (m + 1)..(i - 1) : projects[m2] # projects[k]

\* C16: when the run has failed at project i, the images of projects
\* 1..i-1 are still stored as save_image left them (on Drive, one image
\* object per project in order; or locally, the file of each name holding
\* the bytes last written under it), nothing is undone afterwards, and no
\* log exists on Drive or on disk.
C16_AbortedState ==
    (pc = "failed" /\ LastStep \in {"COPY", "IMAGE", "STORE"}) =>
        /\ Len(generated) >= i - 1
        /\ service # None =>
              /\ remote = [k \in 1..(i - 1) |->
                              ImageObject(generated[k], ImageFilename(projects[k], today_str),
                                          folder_id)]
              /\ DOMAIN files = {}
        /\ service = None =>
              /\ Len(remote) = 0
              /\ DOMAIN files = {ImageFilename(projects[k], today_str) : k \in 1..(i - 1)}
              /\ \A k \in 1..(i - 1) :
                    files[ImageFilename(projects[k], today_str)] = generated[LastSameName(k)]
        /\ LogObjects = {}

\* C16: the aborted state above holds whenever the run has failed, and a
\* failed run changes nothing afterwards.
C16_NoRollback ==
    /\ []C16_AbortedState
    /\ [][pc = "failed" => UNCHANGED <<remote, files, job_logs>>]_vars

C16_Witness ==
    /\ pc = "failed"
    /\ i = 2
    /\ LastStep = "IMAGE"
    /\ service # None
    /\ Len(remote) = 1
    /\ remote[1].mimeType = "image/png"
    /\ Len(job_logs) = 1

\* C17: in a run of job(), once the location is resolved, a manager
\* without a service goes with the sentinel as folder_id; and every
\* save_image call job() makes either creates an object on Drive, or leaves
\* the local file image_filename holding image_data, or raises: none
\* returns having stored nothing.
C17_LocationMatchesMode ==
    (pc \in {"copy", "image", "store", "log", "flush", "done", "failed"} /\ service = None)
        => folder_id = DRY_RUN

\* C17: the location matches the mode throughout, and no save_image call
\* of job() returns having stored nothing.
C17_NoSilentDrop ==
    /\ []C17_LocationMatchesMode
    /\ [][(pc = "store" /\ pc' # "store") =>
            \/ /\ Len(remote') = Len(remote) + 1
               /\ remote'[Len(remote')] = ImageObject(image_data, image_filename, folder_id)
            \/ /\ image_filename \in DOMAIN files'
               /\ files'[image_filename] = image_data
               /\ service = None
            \/ err' # NoErr]_vars

C17_Witness ==
    /\ pc = "log"
    /\ service = None
    /\ DRIVE_FOLDER_ID = "folderA"
    /\ folder_id = DRY_RUN
    /\ image_filename \in DOMAIN files

====
